---- MODULE Spec2Model ----
(***************************************************************************)
(* Model of src/app.py: the Spotify strategy dashboard.                    *)
(*                                                                         *)
(* The script is re-executed from top to bottom on every interaction.      *)
(* One run = load_data() (memoized by st.cache_data), the sidebar widgets, *)
(* the filtered view, the export button, the KPI cards and the three tabs. *)
(* The charts (plotly) and the page layout are not modelled; every table   *)
(* and scalar the script computes for them is.                             *)
(*                                                                         *)
(* Cells.  A cell of a table is a tagged record, so that a missing value   *)
(* (NaN/NaT), a number and a text never compare equal:                     *)
(*     NaN, Num(n), Txt(s)                                                 *)
(* Genre and Artist texts are sequences of one-character strings, because  *)
(* the code lower-cases, title-cases and substring-searches them; the      *)
(* other texts are plain strings.  Numbers are integers: popularity, BPM,  *)
(* follower counts and milliseconds are written as whole numbers; a mean   *)
(* is kept as the exact pair [sum, n].  The audio features the script only *)
(* plots (danceability, energy, loudness, valence) are not columns of the  *)
(* model.                                                                  *)
(***************************************************************************)
EXTENDS Integers, Sequences, FiniteSets, TLC

NaN == [t |-> "nan"]
Num(n) == [t |-> "num", n |-> n]
Txt(s) == [t |-> "str", s |-> s]

IsNaN(c) == c.t = "nan"
IsNum(c) == c.t = "num"
IsTxt(c) == c.t = "str"

(***************************************************************************)
(* Generic sequence helpers.                                               *)
(***************************************************************************)
Range(s) == {s[i] : i \in DOMAIN s}

RECURSIVE SumSeq(_)
SumSeq(s) == IF s = <<>> THEN 0 ELSE Head(s) + SumSeq(Tail(s))

MinOf(S) == CHOOSE x \in S : \A y \in S : x <= y
MaxOf(S) == CHOOSE x \in S : \A y \in S : x >= y

(***************************************************************************)
(* Python str methods on character sequences.                              *)
(***************************************************************************)
UpperChars == <<"A","B","C","D","E","F","G","H","I","J","K","L","M",
                "N","O","P","Q","R","S","T","U","V","W","X","Y","Z">>
LowerChars == <<"a","b","c","d","e","f","g","h","i","j","k","l","m",
                "n","o","p","q","r","s","t","u","v","w","x","y","z">>

IsUpper(c) == \E i \in DOMAIN UpperChars : UpperChars[i] = c
IsLower(c) == \E i \in DOMAIN LowerChars : LowerChars[i] = c
IsAlpha(c) == IsUpper(c) \/ IsLower(c)

\* str.lower() / str.upper() of one character
lower_char(c) ==
    IF IsUpper(c) THEN LowerChars[CHOOSE i \in DOMAIN UpperChars : UpperChars[i] = c]
    ELSE c
upper_char(c) ==
    IF IsLower(c) THEN UpperChars[CHOOSE i \in DOMAIN LowerChars : LowerChars[i] = c]
    ELSE c

\* str.lower()
str_lower(s) == [i \in DOMAIN s |-> lower_char(s[i])]

\* str.title(): a cased character is upper-cased when it follows an uncased
\* character (or starts the string) and lower-cased otherwise.
str_title(s) ==
    [i \in DOMAIN s |->
        IF i = 1 \/ ~IsAlpha(s[i - 1]) THEN upper_char(s[i]) ELSE lower_char(s[i])]

\* str.strip() of blanks
RECURSIVE lstrip(_)
lstrip(s) == IF s # <<>> /\ Head(s) = " " THEN lstrip(Tail(s)) ELSE s
RECURSIVE rstrip(_)
rstrip(s) ==
    IF s # <<>> /\ s[Len(s)] = " " THEN rstrip(SubSeq(s, 1, Len(s) - 1)) ELSE s
str_strip(s) == rstrip(lstrip(s))

\* `needle in haystack`
IsSubstring(needle, hay) ==
    \E i \in 1..(Len(hay) - Len(needle) + 1) :
        SubSeq(hay, i, i + Len(needle) - 1) = needle

\* Series.str.contains(pat, case=False, na=False) for a pattern without
\* regular-expression metacharacters: a missing value never matches.
str_contains(cell, pat) ==
    IF IsNaN(cell) THEN FALSE
    ELSE pat = <<>> \/ IsSubstring(str_lower(pat), str_lower(cell.s))

\* Ordering of texts, as Python compares str: by code point, then by length.
CodeOrder == <<" ", "-", "/">> \o UpperChars \o LowerChars
Ord(c) == CHOOSE i \in DOMAIN CodeOrder : CodeOrder[i] = c
RECURSIVE StrLess(_, _)
StrLess(a, b) ==
    IF b = <<>> THEN FALSE
    ELSE IF a = <<>> THEN TRUE
    ELSE IF Head(a) # Head(b) THEN Ord(Head(a)) < Ord(Head(b))
    ELSE StrLess(Tail(a), Tail(b))

(***************************************************************************)
(* Tables.  A DataFrame is [kind, columns, rows]: the set of its column    *)
(* names and the sequence of its rows (records over those columns).  None  *)
(* is what load_data returns when it fails.                                *)
(***************************************************************************)
None == [kind |-> "None"]
DataFrame(cols, rows) == [kind |-> "DataFrame", columns |-> cols, rows |-> rows]
IsNone(x) == x.kind = "None"

\* The columns of the snapshot file (spec.md section 6: fixed by name).
csv_columns ==
    {"Popularity", "Album_Single", "Genre", "Artist", "Title", "tempo",
     "duration_ms", "Artist_followers", "Release_date", "Explicit", "Country"}

\* df[mask]: boolean indexing returns a NEW table holding the rows whose entry
\* of the mask (one boolean per row) is True.
RECURSIVE MaskedRows(_, _)
MaskedRows(rows, mask) ==
    IF rows = <<>> THEN <<>>
    ELSE (IF Head(mask) THEN <<Head(rows)>> ELSE <<>>) \o MaskedRows(Tail(rows), Tail(mask))
BooleanIndex(table, mask) == DataFrame(table.columns, MaskedRows(table.rows, mask))

(***************************************************************************)
(* pd.read_csv(target, low_memory=False)                                   *)
(***************************************************************************)
\* The default na_values of read_csv that are texts of the model: such a cell
\* is read as a missing value.
na_values ==
    {<<"N","/","A">>, <<"n","/","a">>, <<"N","A">>, <<"n","a","n">>,
     <<"N","a","N">>, <<"n","u","l","l">>, <<"N","U","L","L">>,
     <<"N","o","n","e">>, <<>>}

na_filter(cell) == IF IsTxt(cell) /\ cell.s \in na_values THEN NaN ELSE cell

\* The dtype read_csv infers for the Explicit column from ALL its cells: the
\* numeric parsers are tried first, then the boolean one, else object.
true_values == {"True", "TRUE", "true"}
false_values == {"False", "FALSE", "false"}
int_texts == {"0", "1"}
float_texts == {"0.0", "1.0"}

column_dtype(cells) ==
    LET texts == {c.s : c \in {x \in cells : IsTxt(x)}}
        hasna == \E c \in cells : IsNaN(c)
    IN  IF texts \subseteq int_texts THEN (IF hasna \/ texts = {} THEN "float64" ELSE "int64")
        ELSE IF texts \subseteq (int_texts \cup float_texts) THEN "float64"
        ELSE IF texts \subseteq (true_values \cup false_values) THEN "bool"
        ELSE "object"

\* str(value) of a cell read under that dtype: what .astype(str) later yields.
parsed_text(text, dtype) ==
    CASE dtype = "bool" -> IF text \in true_values THEN "True" ELSE "False"
      [] dtype = "float64" ->
            (CASE text = "1" -> "1.0" [] text = "0" -> "0.0" [] OTHER -> text)
      [] OTHER -> text

read_csv(file) ==
    LET dt == column_dtype({file.rows[i].Explicit : i \in DOMAIN file.rows})
        conv(r) ==
            [r EXCEPT !.Genre = na_filter(@),
                      !.Artist = na_filter(@),
                      !.Explicit = IF IsTxt(@) THEN Txt(parsed_text(@.s, dt)) ELSE @]
    IN  DataFrame(file.columns, [i \in DOMAIN file.rows |-> conv(file.rows[i])])

(***************************************************************************)
(* load_data, step by step (src/app.py 56-79).                             *)
(***************************************************************************)
\* .astype(str) of a text cell: a missing value becomes the text 'nan'.
astype_str(cell) == IF IsNaN(cell) THEN <<"n","a","n">> ELSE cell.s

\* Comparing an object column (one that holds an unparseable text, so that
\* read_csv kept every cell as str) with a number raises TypeError.
StepA_raises(t) == \E i \in DOMAIN t.rows : IsTxt(t.rows[i].Popularity)

\* Step A without its upper limit.
StepA_keep_no_upper(r) == IsNum(r.Popularity) /\ r.Popularity.n >= 0

\* [Step A] df[(df['Popularity'] >= 0) & (df['Popularity'] <= 100)].copy()
\* (a comparison with NaN is False)
StepA_keep(r) ==
    IsNum(r.Popularity) /\ r.Popularity.n >= 0 /\ r.Popularity.n <= 100
StepA(t) == BooleanIndex(t, [i \in DOMAIN t.rows |-> StepA_keep(t.rows[i])])

\* [Step B] df[df['Album/Single'].isin(['single', 'album'])]
album_single_values == {Txt("single"), Txt("album")}
StepB_keep(r) == r.Album_Single \in album_single_values
StepB(t) == BooleanIndex(t, [i \in DOMAIN t.rows |-> StepB_keep(t.rows[i])])

\* [Step C] mask_junk and df[~mask_junk]
junk_genres ==
    {<<"n","-","a">>, <<"u","n","k","n","o","w","n">>,
     <<"w","o","r","l","d","-","m","u","s","i","c">>, <<"n","a","n">>}
mask_junk(r) == str_lower(astype_str(r.Genre)) \in junk_genres
StepC_keep(r) == ~mask_junk(r)
StepC(t) == BooleanIndex(t, [i \in DOMAIN t.rows |-> StepC_keep(t.rows[i])])

\* [Step D] .str.title().replace({'K-Pop': 'K-Pop', 'K-pop': 'K-Pop'})
genre_replace(s) == IF s = <<"K","-","p","o","p">> THEN <<"K","-","P","o","p">> ELSE s
StepD_genre(cell) == Txt(genre_replace(str_title(astype_str(cell))))
StepD(t) ==
    DataFrame(t.columns,
              [i \in DOMAIN t.rows |-> [t.rows[i] EXCEPT !.Genre = StepD_genre(@)]])

\* pd.to_numeric(col, errors='coerce'): an unparseable cell becomes NaN.
to_numeric(cell) == IF IsNum(cell) THEN cell ELSE NaN

\* The numeric_cols of the model (the plotted audio features are left out).
coerce_numeric(r) ==
    [r EXCEPT !.Popularity = to_numeric(@), !.tempo = to_numeric(@),
              !.duration_ms = to_numeric(@), !.Artist_followers = to_numeric(@)]

\* pd.to_datetime(col, format='mixed', errors='coerce'): the layouts it
\* accepts, for the date texts of the model; anything else becomes NaT.
Date(y, m, d) == [t |-> "date", y |-> y, m |-> m, d |-> d]
to_datetime(cell) ==
    IF ~IsTxt(cell) THEN NaN
    ELSE CASE cell.s = "2010-03-15" -> Date(2010, 3, 15)
           [] cell.s = "2019-06-30" -> Date(2019, 6, 30)
           [] cell.s = "07/04/2020" -> Date(2020, 7, 4)
           [] cell.s = "2020-01-01" -> Date(2020, 1, 1)
           [] cell.s = "December 1, 2024" -> Date(2024, 12, 1)
           [] cell.s = "2024-02-29" -> Date(2024, 2, 29)
           [] OTHER -> NaN

\* df['Release_date'].dt.year
dt_year(d) == IF IsNaN(d) THEN NaN ELSE Num(d.y)

\* df['duration_ms'] / 60000, kept as the exact quotient
duration_min(ms) == IF IsNaN(ms) THEN NaN ELSE [t |-> "ratio", num |-> ms.n, den |-> 60000]

\* .astype(str).map({...}).fillna('Clean'): the label of one cell
LabelExplicit == "Explicit"
LabelClean == "Clean"
explicit_text(cell) == IF IsNaN(cell) THEN "nan" ELSE cell.s
explicit_label(cell) ==
    LET s == explicit_text(cell)
    IN  CASE s = "True" -> LabelExplicit
          [] s = "False" -> LabelClean
          [] s = "true" -> LabelExplicit
          [] s = "false" -> LabelClean
          [] OTHER -> LabelClean

\* lines 68-77: the derived columns of one row
normalize_row(r, hasExplicit) ==
    LET c == coerce_numeric(r)
        d == to_datetime(c.Release_date)
        base == [c EXCEPT !.Release_date = d]
        derived == ("Year" :> dt_year(d)) @@ ("duration_min" :> duration_min(c.duration_ms))
        label == IF hasExplicit THEN ("Explicit_Label" :> explicit_label(c.Explicit))
                 ELSE <<>>
    IN  base @@ derived @@ label

normalize(t) ==
    LET he == "Explicit" \in t.columns
    IN  DataFrame(t.columns \cup {"Year", "duration_min"}
                    \cup (IF he THEN {"Explicit_Label"} ELSE {}),
                  [i \in DOMAIN t.rows |-> normalize_row(t.rows[i], he)])

\* df.dropna(subset=['Year', 'Popularity', 'Genre', 'Artist', 'tempo'])
dropna_subset == {"Year", "Popularity", "Genre", "Artist", "tempo"}
dropna_keep(r) == \A c \in dropna_subset : ~IsNaN(r[c])
dropna(t) == BooleanIndex(t, [i \in DOMAIN t.rows |-> dropna_keep(t.rows[i])])

\* The names load_data looks for in the working directory.
GZ == "Final database.csv.gz"
ZIP == "Final database.zip"

\* Line 51 preferring the .zip.
choose_target_zip_first(all_files) == IF ZIP \in all_files THEN ZIP ELSE GZ

\* line 51
choose_target(all_files) == IF GZ \in all_files THEN GZ ELSE ZIP

\* The try block, lines 56-79: None when anything in it raises.
clean(file) ==
    IF ~file.readable THEN None
    ELSE LET raw == read_csv(file)
         IN  IF StepA_raises(raw) THEN None
             ELSE dropna(normalize(StepD(StepC(StepB(StepA(raw))))))

\* load_data(): cwd maps each file present to its content.
load_data(cwd) ==
    LET all_files == DOMAIN cwd
        target == choose_target(all_files)
    IN  IF target \notin all_files THEN None ELSE clean(cwd[target])

(***************************************************************************)
(* Aggregations of pandas used by the script.                              *)
(***************************************************************************)
\* A mean that is 0 over no value.
Mean_zero_when_empty(cells) ==
    LET nums == SelectSeq(cells, IsNum)
    IN  IF nums = <<>> THEN Num(0)
        ELSE [t |-> "ratio", num |-> SumSeq([i \in DOMAIN nums |-> nums[i].n]),
              den |-> Len(nums)]

\* Series.mean(): the missing values are skipped; over no value it is NaN.
Mean(cells) ==
    LET nums == SelectSeq(cells, IsNum)
    IN  IF nums = <<>> THEN NaN
        ELSE [t |-> "ratio", num |-> SumSeq([i \in DOMAIN nums |-> nums[i].n]),
              den |-> Len(nums)]

\* Series.max(), missing values skipped
Max(cells) ==
    LET nums == {c.n : c \in {x \in Range(cells) : IsNum(x)}}
    IN  IF nums = {} THEN NaN ELSE Num(MaxOf(nums))

\* Series.count(): the number of non-missing cells
Count(cells) == Len(SelectSeq(cells, LAMBDA c : ~IsNaN(c)))

Column(rows, col) == [i \in DOMAIN rows |-> rows[i][col]]

\* The rows of one group of groupby(col): groupby drops a missing key.
Group(rows, col, key) == SelectSeq(rows, LAMBDA r : r[col] = key)
GroupKeys(rows, col) == {c \in Range(Column(rows, col)) : ~IsNaN(c)}

\* df.groupby(key)[value].mean(): one entry per key that has rows
groupby_mean(rows, key, value) ==
    [k \in GroupKeys(rows, key) |-> Mean(Column(Group(rows, key, k), value))]

\* Series.value_counts(): the values by falling count; equal counts keep the
\* order in which the values first occur.
FirstIndex(cells, v) == MinOf({i \in DOMAIN cells : cells[i] = v})
Occurrences(cells, v) == Cardinality({i \in DOMAIN cells : cells[i] = v})
CountsBefore(cells, v, w) ==
    \/ Occurrences(cells, v) > Occurrences(cells, w)
    \/ /\ Occurrences(cells, v) = Occurrences(cells, w)
       /\ FirstIndex(cells, v) < FirstIndex(cells, w)
value_counts_index(cells) ==
    LET vals == {c \in Range(cells) : ~IsNaN(c)}
        rank(v) == 1 + Cardinality({w \in vals : CountsBefore(cells, w, v)})
    IN  [i \in 1..Cardinality(vals) |-> CHOOSE v \in vals : rank(v) = i]

\* .head(n)
head(s, n) == SubSeq(s, 1, IF Len(s) < n THEN Len(s) ELSE n)

\* Series.mode()[0]: the most frequent value, the smallest one on a tie
mode0(cells) ==
    LET vals == Range(cells)
        top == {v \in vals : \A w \in vals : Occurrences(cells, v) >= Occurrences(cells, w)}
    IN  CHOOSE v \in top : \A w \in top : w = v \/ StrLess(v.s, w.s)

\* DataFrame.nlargest(n, col): the n rows of largest col, the first on a tie
nlargest(rows, n, col) ==
    LET before(j, i) ==
            \/ rows[j][col].n > rows[i][col].n
            \/ rows[j][col].n = rows[i][col].n /\ j < i
        kept == {i \in DOMAIN rows : Cardinality({j \in DOMAIN rows : before(j, i)}) < n}
    IN  {rows[i] : i \in kept}

(***************************************************************************)
(* The script after load_data (src/app.py 86-384), section by section.     *)
(***************************************************************************)
\* The widgets' defaults and ranges.
DefaultYearLo == 2010
DefaultYearHi == 2024
DefaultTopN == 4
TopNMin == 3
TopNMax == 10
SuperstarFollowers == 1000000
MinTracks == 2
MinArtists == 2
DarkHorseFollowers == 50000
DarkHorsePopularity == 75
TopHorses == 3
SampleMax == 2000
HitPopularity == 80

\* line 90: the bounds of the year slider; int(nan) raises on an empty table.
year_min(t) == MinOf({r.Year.n : r \in Range(t.rows)})
year_max(t) == MaxOf({r.Year.n : r \in Range(t.rows)})

\* line 90: st.slider raises when the table is empty (int(NaN)) and when its
\* value does not lie inside [min_value, max_value].
slider_raises(t, yr) ==
    \/ t.rows = <<>>
    \/ ~(year_min(t) <= yr[1] /\ yr[1] <= yr[2] /\ yr[2] <= year_max(t))

\* lines 94-96
year_keep(r, yr) == r.Year.n >= yr[1] /\ r.Year.n <= yr[2]
\* The view of the first run, whatever the controls now say: the slider's
\* default range and no search.
filter_view_of_first_run(t, yr, q) ==
    BooleanIndex(t, [i \in DOMAIN t.rows |->
                        year_keep(t.rows[i], <<DefaultYearLo, DefaultYearHi>>)])

filter_view(t, yr, q) ==
    LET byYear == BooleanIndex(t, [i \in DOMAIN t.rows |-> year_keep(t.rows[i], yr)])
    IN  IF q # <<>>
        THEN BooleanIndex(byYear,
                [i \in DOMAIN byYear.rows |-> str_contains(byYear.rows[i].Artist, q)])
        ELSE byYear

\* line 103, df_filtered.to_csv(index=False): one field per cell.  A missing
\* value is written as the empty field, a text as its characters, a number as
\* the decimal literal of its value (a ratio as the literal of the quotient), a
\* timestamp as its ISO date; the cells of a column of labels (Explicit_Label,
\* Tempo_Zone) are texts.  Nothing is rounded and no cell is dropped.
label_columns == {"Explicit_Label", "Tempo_Zone"}
to_csv_field(column, cell) ==
    CASE column \in label_columns -> [f |-> "text", chars |-> cell]
      [] cell.t = "nan" -> [f |-> "empty"]
      [] cell.t = "str" -> [f |-> "text", chars |-> cell.s]
      [] cell.t = "num" -> [f |-> "decimal", num |-> cell.n, den |-> 1]
      [] cell.t = "ratio" -> [f |-> "decimal", num |-> cell.num, den |-> cell.den]
      [] cell.t = "date" -> [f |-> "iso", y |-> cell.y, m |-> cell.m, d |-> cell.d]

\* index=False: a header line of the column names, then one line per row, in
\* the row order of the table, with no index column.
to_csv(table) ==
    [header |-> table.columns,
     lines |-> [i \in DOMAIN table.rows |->
                  [c \in DOMAIN table.rows[i] |-> to_csv_field(c, table.rows[i][c])]]]

\* .encode('utf-8-sig'): the byte-order mark, then the text unchanged.
encode_utf_8_sig(text) == [bom |-> TRUE, text |-> text]

\* line 107: f"spotify_analysis_{year_range[0]}_{year_range[1]}.csv"
file_name(yr) == <<"spotify_analysis", yr[1], yr[2]>>

\* lines 102-109: the download button, offered for a non-empty view only
export_button(view, yr) ==
    IF view.rows # <<>>
    THEN [offered |-> TRUE,
          data |-> encode_utf_8_sig(to_csv(view)),
          file_name |-> file_name(yr),
          mime |-> "text/csv"]
    ELSE [offered |-> FALSE]

\* lines 116-121: the five KPI cards
kpi_cards(view) ==
    [total_tracks |-> Num(Len(view.rows)),
     avg_popularity |-> Mean(Column(view.rows, "Popularity")),
     superstars |->
        Num(Cardinality({r.Artist : r \in
            {x \in Range(view.rows) :
                IsNum(x.Artist_followers) /\ x.Artist_followers.n > SuperstarFollowers}})),
     avg_tempo |-> Mean(Column(view.rows, "tempo")),
     top_genre |-> IF view.rows # <<>> THEN mode0(Column(view.rows, "Genre"))
                   ELSE Txt(<<"N","/","A">>)]

\* Line 136 counting the genres in the base table.
genre_population_of_base(base, view) == Column(base.rows, "Genre")

\* line 136: df_filtered['Genre'], the column the genres are counted in
genre_population(base, view) == Column(view.rows, "Genre")

\* line 136: .value_counts().head(top_n).index
top_genres(genres, n) == head(value_counts_index(genres), n)

\* line 137
segment(view, gs) ==
    BooleanIndex(view, [i \in DOMAIN view.rows |-> view.rows[i].Genre \in Range(gs)])

\* line 165: groupby(['Genre', 'Explicit_Label'])['Popularity'].mean()
explicit_means(seg) ==
    LET keys == {<<r.Genre, r.Explicit_Label>> : r \in Range(seg.rows)}
    IN  [k \in keys |->
            Mean(Column(SelectSeq(seg.rows,
                    LAMBDA r : r.Genre = k[1] /\ r.Explicit_Label = k[2]), "Popularity"))]

\* lines 200-204: one row per artist
artist_agg(view) ==
    [a \in GroupKeys(view.rows, "Artist") |->
        LET g == Group(view.rows, "Artist", a)
        IN  [Artist_followers |-> Mean(Column(g, "Artist_followers")),
             Popularity |-> Max(Column(g, "Popularity")),
             Title |-> Count(Column(g, "Title"))]]

\* line 207: artist_stats[artist_stats['Title'] > 2]
enough_tracks(stat) == stat.Title > MinTracks
artist_filter(stats) ==
    LET kept == {a \in DOMAIN stats : enough_tracks(stats[a])}
    IN  [a \in kept |-> stats[a]]

\* lines 209-211: the correlation, computed when more than two artists are
\* left; kept as the sample it is computed over.
correlation(stats) ==
    IF Cardinality(DOMAIN stats) > MinArtists
    THEN [computed |-> TRUE,
          sample |-> {<<a, stats[a].Artist_followers, stats[a].Popularity>> : a \in DOMAIN stats}]
    ELSE [computed |-> FALSE]

\* lines 270-271 (a comparison with a missing follower count is False)
dark_horse_keep(r) ==
    /\ IsNum(r.Artist_followers) /\ r.Artist_followers.n < DarkHorseFollowers
    /\ r.Popularity.n > DarkHorsePopularity
select_dark_horses(view) ==
    BooleanIndex(view, [i \in DOMAIN view.rows |-> dark_horse_keep(view.rows[i])])

\* lines 306-310: row['Title'][:15] raises TypeError on a missing title
top_horses_raise(dh) ==
    \E r \in nlargest(dh.rows, TopHorses, "Popularity") : IsNaN(r.Title)

\* line 336: sample(n=min(2000, len), random_state=42): n rows of the view.
\* Which rows are drawn and their order are not modelled: within the bounds
\* n is always len, so every row is drawn.
sample(view) ==
    LET n == IF SampleMax < Len(view.rows) THEN SampleMax ELSE Len(view.rows)
    IN  DataFrame(view.columns, SubSeq(view.rows, 1, n))

\* line 344
hit_keep(r) == r.Popularity.n > HitPopularity
select_hits(view) ==
    BooleanIndex(view, [i \in DOMAIN view.rows |-> hit_keep(view.rows[i])])

\* Line 352 with 140 BPM on the fast side.
classify_tempo_exclusive(bpm) ==
    IF IsNum(bpm) /\ bpm.n < 100 THEN "Slow (<100)"
    ELSE IF IsNum(bpm) /\ bpm.n < 140 THEN "Mainstream (100-140)"
    ELSE "Fast (>140)"

\* line 352
classify_tempo(bpm) ==
    IF IsNum(bpm) /\ bpm.n < 100 THEN "Slow (<100)"
    ELSE IF IsNum(bpm) /\ bpm.n <= 140 THEN "Mainstream (100-140)"
    ELSE "Fast (>140)"

\* line 353: df_filtered['Tempo_Zone'] = ...: the column is added to the
\* object df_filtered names, which boolean indexing created; the base table
\* is another object.  Gives both tables as they are after the assignment.
with_tempo_zone(t) ==
    DataFrame(t.columns \cup {"Tempo_Zone"},
              [i \in DOMAIN t.rows |->
                  t.rows[i] @@ ("Tempo_Zone" :> classify_tempo(t.rows[i].tempo))])
\* Line 353 writing through to the base table, as it would if df_filtered
\* were the base table itself.
assign_tempo_zone_in_place(base, view) ==
    [base |-> with_tempo_zone(base), view |-> with_tempo_zone(view)]
assign_tempo_zone(base, view) == [base |-> base, view |-> with_tempo_zone(view)]

\* lines 364-365: df_filtered[corr_f].corr(), kept as its observations; with
\* fewer than two of them every cell is NaN.
corr_f == {"Popularity", "tempo", "duration_ms"}
corr_matrix(view) ==
    LET obs == [i \in DOMAIN view.rows |-> [c \in corr_f |-> view.rows[i][c]]]
    IN  [defined |-> Len(obs) >= 2, observations |-> obs]

\* line 382
country_means(view) == groupby_mean(view.rows, "Country", "Popularity")

(***************************************************************************)
(* One run of the script.  Unbound stands for a name the run never bound.  *)
(***************************************************************************)
Unbound == [kind |-> "Unbound"]

\* Everything after the dark-horse section, lines 333-384.
run_tabs(base, view, sofar) ==
    LET tz == assign_tempo_zone(base, view)
    IN  [sofar EXCEPT
            !.stage = "done",
            !.df = tz.base,
            !.df_sample = sample(view),
            !.hit_songs = select_hits(view),
            !.df_filtered = tz.view,
            !.corr_m = corr_matrix(tz.view),
            !.geo = country_means(tz.view)]

\* Lines 94-330, once the sliders have given their values.
run_main(base, yr, q, n) ==
    LET view == filter_view(base, yr, q)
        gs == top_genres(genre_population(base, view), n)
        seg == segment(view, gs)
        stats == artist_filter(artist_agg(view))
        dh == select_dark_horses(view)
        sofar ==
            [stage |-> "raised_tab1",
             base |-> base,
             df |-> base,
             df_filtered |-> view,
             csv_export |-> export_button(view, yr),
             metrics |-> kpi_cards(view),
             yearly |-> groupby_mean(view.rows, "Year", "Popularity"),
             target_gs |-> gs,
             df_segment |-> seg,
             avg_exp |-> explicit_means(seg),
             artist_stats |-> stats,
             corr_value |-> correlation(stats),
             dark_horses |-> dh,
             df_sample |-> Unbound,
             hit_songs |-> Unbound,
             corr_m |-> Unbound,
             geo |-> Unbound]
    IN  IF top_horses_raise(dh) THEN sofar ELSE run_tabs(base, view, sofar)

\* A run that ends before the filtered view exists.
run_stopped(stage_, base) ==
    [stage |-> stage_, base |-> base, df |-> base, df_filtered |-> Unbound, csv_export |-> Unbound,
     metrics |-> Unbound, yearly |-> Unbound, target_gs |-> Unbound,
     df_segment |-> Unbound, avg_exp |-> Unbound, artist_stats |-> Unbound,
     corr_value |-> Unbound, dark_horses |-> Unbound, df_sample |-> Unbound,
     hit_songs |-> Unbound, corr_m |-> Unbound, geo |-> Unbound]

\* Lines 83-384: base is what load_data() returned to this run.
run_script(base, yr, q, n) ==
    IF IsNone(base) THEN run_stopped("halted", base)
    ELSE IF slider_raises(base, yr) THEN run_stopped("raised_sidebar", base)
    ELSE run_main(base, yr, q, n)

(***************************************************************************)
(* The snapshot files of the model.                                        *)
(***************************************************************************)
MaxExtraRows == 1

Row(pop, album, genre, artist, title, tempo_, followers, date, explicit) ==
    [Popularity |-> pop, Album_Single |-> Txt(album), Genre |-> genre,
     Artist |-> artist, Title |-> title, tempo |-> tempo_,
     duration_ms |-> Num(180000), Artist_followers |-> followers,
     Release_date |-> Txt(date), Explicit |-> explicit, Country |-> Txt("Japan")]

Pop == Txt(<<"P","o","p">>)
Rock == Txt(<<"R","o","c","k">>)
Jazz == Txt(<<"J","a","z","z">>)
Folk == Txt(<<"F","o","l","k">>)
Ab == Txt(<<"A","b">>)
Cd == Txt(<<"C","d">>)
Ef == Txt(<<"E","f">>)

\* A small catalogue: four genres, three artists, tracks of 2010, 2020 and
\* 2024 (none of 2015).
Catalogue ==
    << Row(Num(60), "single", Pop, Ab, Txt("t1"), Num(99), Num(1000), "2010-03-15", Txt("True")),
       Row(Num(80), "album", Pop, Ab, Txt("t2"), Num(100), Num(1000), "2010-03-15", Txt("False")),
       Row(Num(90), "single", Rock, Cd, Txt("t3"), Num(140), Num(2000000), "2010-03-15", Txt("True")),
       Row(Num(70), "album", Jazz, Cd, Txt("t4"), Num(141), Num(2000000), "2020-01-01", Txt("False")),
       Row(Num(40), "single", Pop, Cd, Txt("t5"), Num(120), Num(2000000), "2024-02-29", Txt("False")),
       Row(Num(100), "single", Folk, Ef, Txt("t6"), Num(80), Num(40000), "December 1, 2024", Txt("False")),
       Row(Num(30), "album", Folk, Ef, Txt("t7"), Num(128), Num(40000), "07/04/2020", Txt("True")),
       Row(Num(76), "single", Rock, Ef, Txt("t8"), Num(170), Num(40000), "2024-02-29", Txt("False")) >>

\* The scenario of spec.md section 8.
Scenario ==
    << Row(Num(120), "single", Pop, Ab, Txt("s1"), Num(120), Num(1000), "2019-06-30", Txt("False")),
       Row(Num(50), "single", Txt(<<"N","/","A">>), Ab, Txt("s2"), Num(120), Num(1000), "2019-06-30", Txt("False")),
       Row(Num(80), "single", Pop, Ab, Txt("s3"), Num(120), Num(1000), "2019-06-30", Txt("False")),
       Row(Num(90), "single", Pop, Ab, Txt("s4"), Num(120), Num(1000), "2020-01-01", Txt("False")) >>

\* One more row: a good one, and the same with one cell changed.
Good == Row(Num(50), "single", Pop, Ab, Txt("t0"), Num(120), Num(1000), "2020-01-01", Txt("True"))

ExtraRows ==
    {Good}
    \cup {[Good EXCEPT !.Popularity = c] :
            c \in {Num(-1), Num(0), Num(101), NaN, Txt("abc")}}
    \cup {[Good EXCEPT !.Album_Single = Txt("compilation")]}
    \cup {[Good EXCEPT !.Genre = Txt(g)] :
            g \in {<<"N","/","A">>, <<"U","n","k","n","o","w","n">>,
                   <<"N","o","t"," ","A","v","a","i","l","a","b","l","e">>,
                   <<"u","n","k","n","o","w","n"," ">>,
                   <<"k","-","p","o","p">>}}
    \cup {[Good EXCEPT !.Artist = NaN], [Good EXCEPT !.Title = NaN],
          [Good EXCEPT !.Artist_followers = NaN]}
    \cup {[Good EXCEPT !.tempo = c] : c \in {NaN, Txt("fast")}}
    \cup {[Good EXCEPT !.Release_date = c] : c \in {NaN, Txt("soon")}}
    \cup {[Good EXCEPT !.Explicit = c] :
            c \in {NaN} \cup {Txt(x) : x \in {"true", "false", "1", "1.0", "0", "0.0", "maybe"}}}

RECURSIVE SeqsUpTo(_, _)
SeqsUpTo(S, n) ==
    IF n = 0 THEN {<<>>}
    ELSE LET shorter == SeqsUpTo(S, n - 1)
         IN  shorter \cup {Append(s, x) : s \in {t \in shorter : Len(t) = n - 1}, x \in S}

File(rows) == [readable |-> TRUE, columns |-> csv_columns, rows |-> rows]
Unreadable == [readable |-> FALSE, columns |-> csv_columns, rows |-> <<>>]

BaseFiles == {File(<<>>), File(Catalogue), File(Scenario), Unreadable}
Files ==
    {Unreadable}
    \cup {File(p \o e) : p \in {<<>>, Catalogue, Scenario}, e \in SeqsUpTo(ExtraRows, MaxExtraRows)}

\* What the user can set the widgets to.
YearStops == {2010, 2015, 2024}
Queries == {<<>>, <<"a","B">>}
TopNChoices == {n \in TopNMin..TopNMax : n <= DefaultTopN}

(***************************************************************************)
(* State.                                                                  *)
(***************************************************************************)
VARIABLES
    cwd,            \* the snapshot files in the working directory
    cache,          \* st.cache_data's entry for load_data(): Unbound or its value
    year_range, search_query, top_n,    \* the widgets' values in the session
    stage,          \* how the last run ended
    df, df_filtered, csv_export, metrics, yearly, target_gs, df_segment,
    avg_exp, artist_stats, corr_value, dark_horses, df_sample, hit_songs,
    corr_m, geo     \* the names the last run bound

outputs == <<df, df_filtered, csv_export, metrics, yearly, target_gs, df_segment,
             avg_exp, artist_stats, corr_value, dark_horses, df_sample, hit_songs,
             corr_m, geo>>
vars == <<cwd, cache, year_range, search_query, top_n, stage, outputs>>

Init ==
    /\ \/ \E f \in Files : cwd = (GZ :> f)
       \/ \E f \in BaseFiles : cwd = (ZIP :> f)
       \/ \E f \in BaseFiles, g \in BaseFiles : cwd = (GZ :> f) @@ (ZIP :> g)
       \/ cwd = <<>>
    /\ cache = Unbound
    /\ year_range = <<DefaultYearLo, DefaultYearHi>>
    /\ search_query = <<>>
    /\ top_n = DefaultTopN
    /\ stage = "not_run"
    /\ df = Unbound /\ df_filtered = Unbound /\ csv_export = Unbound
    /\ metrics = Unbound /\ yearly = Unbound /\ target_gs = Unbound
    /\ df_segment = Unbound /\ avg_exp = Unbound /\ artist_stats = Unbound
    /\ corr_value = Unbound /\ dark_horses = Unbound /\ df_sample = Unbound
    /\ hit_songs = Unbound /\ corr_m = Unbound /\ geo = Unbound

\* @st.cache_data: load_data runs on the first call; every later call is handed
\* a copy of the value stored then.
cached_load_data == IF cache = Unbound THEN load_data(cwd) ELSE cache

\* One execution of the script under the widget values given.
Execute(yr, q, n) ==
    \E r \in {run_script(cached_load_data, yr, q, n)} :
        /\ cache' = r.base
        /\ year_range' = yr /\ search_query' = q /\ top_n' = n
        /\ stage' = r.stage
        /\ df' = r.df /\ df_filtered' = r.df_filtered /\ csv_export' = r.csv_export
        /\ metrics' = r.metrics /\ yearly' = r.yearly /\ target_gs' = r.target_gs
        /\ df_segment' = r.df_segment /\ avg_exp' = r.avg_exp
        /\ artist_stats' = r.artist_stats /\ corr_value' = r.corr_value
        /\ dark_horses' = r.dark_horses /\ df_sample' = r.df_sample
        /\ hit_songs' = r.hit_songs /\ corr_m' = r.corr_m /\ geo' = r.geo
        /\ UNCHANGED cwd

\* The sidebar widgets are on the page once a run got past line 98.
widgets_shown == stage \in {"done", "raised_tab1"}

\* The session's first run: every widget gives its default.
FirstRun ==
    /\ stage = "not_run"
    /\ Execute(year_range, search_query, top_n)

\* The user moves the year slider (inside its bounds): the script re-runs.
ChangeYearRange ==
    /\ widgets_shown
    /\ \E lo \in YearStops, hi \in YearStops :
        /\ year_min(cache) <= lo /\ lo <= hi /\ hi <= year_max(cache)
        /\ <<lo, hi>> # year_range
        /\ Execute(<<lo, hi>>, search_query, top_n)

\* The user edits the artist search box: the script re-runs.
ChangeSearch ==
    /\ widgets_shown
    /\ \E q \in Queries :
        /\ q # search_query
        /\ Execute(year_range, q, top_n)

\* The user moves the top-genres slider: the script re-runs.
ChangeTopN ==
    /\ widgets_shown
    /\ \E n \in TopNChoices :
        /\ n # top_n
        /\ Execute(year_range, search_query, n)

\* Any other interaction (a tab, a slider of the predictor, "Rerun"): the
\* script re-runs under the same values.
Rerun ==
    /\ stage # "not_run"
    /\ Execute(year_range, search_query, top_n)

Next == FirstRun \/ ChangeYearRange \/ ChangeSearch \/ ChangeTopN \/ Rerun

Spec == Init /\ [][Next]_vars

(***************************************************************************)
(* Properties.                                                             *)
(***************************************************************************)
Loaded == cache.kind = "DataFrame"
ViewBuilt == stage \in {"done", "raised_tab1"}

\* The snapshot file load_data reads, when there is one.
HasTarget == choose_target(DOMAIN cwd) \in DOMAIN cwd
TargetFile == cwd[choose_target(DOMAIN cwd)]

InRange(c) == IsNum(c) /\ c.n >= 0 /\ c.n <= 100

\* C1: whenever load_data returned a table, every record of it has a numeric
\* Popularity within [0, 100] and a Year that is not missing; no more records
\* survive than the file has rows with such a popularity and a parseable date.
C1_PopularityInRangeAndYearPresent ==
    Loaded =>
        /\ \A r \in Range(cache.rows) : InRange(r.Popularity) /\ IsNum(r.Year)
        /\ Len(cache.rows) <=
              Cardinality({i \in DOMAIN TargetFile.rows :
                  /\ InRange(TargetFile.rows[i].Popularity)
                  /\ ~IsNaN(to_datetime(TargetFile.rows[i].Release_date))})

\* C1 witness: a table was returned, with rows, from a file that holds a record
\* of popularity above 100 and a record with an unparseable date.
C1_Witness ==
    /\ Loaded /\ cache.rows # <<>>
    /\ \E i \in DOMAIN TargetFile.rows :
          IsNum(TargetFile.rows[i].Popularity) /\ TargetFile.rows[i].Popularity.n > 100
    /\ \E i \in DOMAIN TargetFile.rows : TargetFile.rows[i].Release_date = Txt("soon")

\* C2: in every run, after any sequence of interactions, the base table df is
\* the table load_data made of the snapshot: same rows, same values, same
\* columns (no Tempo_Zone); the memoized table never differs from it either.
C2_BaseTableUnchanged ==
    stage # "not_run" =>
        /\ cache = load_data(cwd)
        /\ df = cache
        /\ (Loaded => "Tempo_Zone" \notin df.columns)

\* C2 witness: a run after the year range, the search text and the genre count
\* were all changed, which built a non-empty view with its Tempo_Zone column, a
\* segment and dark horses.
C2_Witness ==
    /\ stage = "done"
    /\ year_range # <<DefaultYearLo, DefaultYearHi>>
    /\ search_query # <<>>
    /\ top_n # DefaultTopN
    /\ df_filtered.rows # <<>>
    /\ "Tempo_Zone" \in df_filtered.columns
    /\ df_segment.rows # <<>>
    /\ dark_horses.rows # <<>>

ViewGenres == {r.Genre : r \in Range(df_filtered.rows)}
TracksOfGenre(g) ==
    Cardinality({i \in DOMAIN df_filtered.rows : df_filtered.rows[i].Genre = g})
TargetGenres == Range(target_gs)

\* The table of the claim's example: A:10, B:8, C:2 overall, and A:1, B:5, C:2
\* within 2020.
Repeat(x, k) == [i \in 1..k |-> x]
ExampleRow(g, date) ==
    Row(Num(50), "single", Txt(<<g>>), Ab, Txt("t"), Num(120), Num(1000), date, Txt("True"))
ExampleTable ==
    load_data(GZ :> File(
        Repeat(ExampleRow("A", "2010-03-15"), 9) \o Repeat(ExampleRow("B", "2010-03-15"), 3)
        \o Repeat(ExampleRow("A", "2020-01-01"), 1) \o Repeat(ExampleRow("B", "2020-01-01"), 5)
        \o Repeat(ExampleRow("C", "2020-01-01"), 2)))
ExampleTopTwo ==
    top_genres(genre_population(ExampleTable,
                                filter_view(ExampleTable, <<2020, 2020>>, <<>>)), 2)

\* C3: the genres of the segment are the top_n most frequent genres of the
\* filtered view: they occur in the view, there are min(top_n, genres of the
\* view) of them, none left out has more tracks in the view than one taken;
\* df_segment is the view's records of those genres, each within the year
\* range and matching the search; on the example table, 2020..2020 and two
\* genres give B and C.
C3_TopGenresOfFilteredView ==
    /\ Range(ExampleTopTwo) = {Txt(<<"B">>), Txt(<<"C">>)}
    /\ ViewBuilt =>
        /\ TargetGenres \subseteq ViewGenres
        /\ Cardinality(TargetGenres) = Len(target_gs)
        /\ Len(target_gs) =
              IF Cardinality(ViewGenres) < top_n THEN Cardinality(ViewGenres) ELSE top_n
        /\ \A g \in TargetGenres, h \in ViewGenres \ TargetGenres :
              TracksOfGenre(g) >= TracksOfGenre(h)
        /\ \A r \in Range(df_segment.rows) :
              /\ r.Genre \in TargetGenres
              /\ r.Year.n >= year_range[1] /\ r.Year.n <= year_range[2]
              /\ search_query # <<>> =>
                    IsSubstring(str_lower(search_query), str_lower(r.Artist.s))
        /\ Len(df_segment.rows) =
              Cardinality({i \in DOMAIN df_filtered.rows :
                              df_filtered.rows[i].Genre \in TargetGenres})

\* C3 witness: a view narrower than the base table, with more genres than
\* top_n, whose top genres are not those of the whole base table.
C3_Witness ==
    /\ ViewBuilt
    /\ Len(df_filtered.rows) < Len(df.rows)
    /\ Cardinality(ViewGenres) > top_n
    /\ TargetGenres # Range(top_genres(Column(df.rows, "Genre"), top_n))
    /\ df_segment.rows # <<>>

\* What the claim C4 says each source value of the explicit flag maps to.
LabelUnknown == "Unknown"
ClaimedLabel(text) ==
    IF text \in {"True", "true", "1", "1.0"} THEN LabelExplicit
    ELSE IF text \in {"False", "false", "0", "0.0"} THEN LabelClean
    ELSE LabelUnknown

\* C4: every record's Explicit_Label is the label of its explicit flag: Explicit
\* for "True", "true", "1", "1.0", Clean for "False", "false", "0", "0.0",
\* Unknown for anything else or a missing value.
C4_ExplicitLabelMapping ==
    Loaded =>
        \A r \in Range(cache.rows) :
            r.Explicit_Label = ClaimedLabel(explicit_text(r.Explicit))

\* The placeholder genres of the claim C5, case and blanks normalised.
Placeholders ==
    {<<"n","o","t"," ","a","v","a","i","l","a","b","l","e">>,
     <<"u","n","k","n","o","w","n">>,
     <<"n","o","t"," ","a","p","p","l","i","c","a","b","l","e">>,
     <<"n","/","a">>}

\* C5: no record of the base table has a genre that, lower-cased and stripped of
\* blanks, is a placeholder value.
C5_NoPlaceholderGenre ==
    Loaded =>
        \A r \in Range(cache.rows) :
            str_strip(str_lower(r.Genre.s)) \notin Placeholders

Zones == {"Slow (<100)", "Mainstream (100-140)", "Fast (>140)"}

\* C6: every record of the view gets exactly one tempo zone: Slow when its
\* tempo is below 100, Mainstream from 100 to 140 inclusive, Fast above 140.
C6_TempoZonePartition ==
    stage = "done" =>
        \A r \in Range(df_filtered.rows) :
            /\ IsNum(r.tempo)
            /\ r.Tempo_Zone \in Zones
            /\ (r.Tempo_Zone = "Slow (<100)") <=> (r.tempo.n < 100)
            /\ (r.Tempo_Zone = "Mainstream (100-140)") <=>
                  (100 <= r.tempo.n /\ r.tempo.n <= 140)
            /\ (r.Tempo_Zone = "Fast (>140)") <=> (r.tempo.n > 140)

\* C6 witness: a view holding tracks of 99, 100, 140 and 141 BPM, zoned.
C6_Witness ==
    /\ stage = "done"
    /\ \A bpm \in {99, 100, 140, 141} :
          \E r \in Range(df_filtered.rows) : r.tempo = Num(bpm) /\ r.Tempo_Zone \in Zones

\* C7: load_data returns None only when the snapshot is missing or unreadable,
\* never because of one field of one record.
C7_FieldFailureNeverFailsLoad ==
    (stage # "not_run" /\ HasTarget /\ TargetFile.readable) => Loaded

\* C8: the .csv.gz is the file loaded when present, else the .zip; with neither
\* present, or the file unreadable, load_data returns None; and after None the
\* run halts before any view, aggregation or export exists.
C8_MissingSourceHalts ==
    stage # "not_run" =>
        /\ GZ \in DOMAIN cwd => cache = clean(cwd[GZ])
        /\ (GZ \notin DOMAIN cwd /\ ZIP \in DOMAIN cwd) => cache = clean(cwd[ZIP])
        /\ (GZ \notin DOMAIN cwd /\ ZIP \notin DOMAIN cwd) => IsNone(cache)
        /\ (HasTarget /\ ~TargetFile.readable) => IsNone(cache)
        /\ IsNone(cache) =>
              /\ stage = "halted"
              /\ \A x \in {df_filtered, csv_export, metrics, df_segment, dark_horses,
                           df_sample, hit_songs, corr_value, corr_m} : x = Unbound
              /\ \A x \in {yearly, target_gs, avg_exp, artist_stats, geo} : x = Unbound

\* C8 witness: a run in a directory holding neither file.
C8_Witness ==
    /\ DOMAIN cwd = {}
    /\ stage = "halted"
    /\ IsNone(cache)

EmptyView == ViewBuilt /\ df_filtered.rows = <<>>

\* What every aggregation of a run over an empty view is, the KPI counts aside.
EmptyViewResults ==
    /\ stage = "done"
    /\ ~csv_export.offered
    /\ IsNaN(metrics.avg_popularity)
    /\ IsNaN(metrics.avg_tempo)
    /\ metrics.top_genre = Txt(<<"N","/","A">>)
    /\ DOMAIN yearly = {}
    /\ target_gs = <<>>
    /\ df_segment.rows = <<>>
    /\ DOMAIN avg_exp = {}
    /\ DOMAIN artist_stats = {}
    /\ ~corr_value.computed
    /\ dark_horses.rows = <<>>
    /\ df_sample.rows = <<>>
    /\ hit_songs.rows = <<>>
    /\ "Tempo_Zone" \in df_filtered.columns
    /\ ~corr_m.defined
    /\ DOMAIN geo = {}

\* C9 as claimed: over an empty view the run reaches its end, every aggregation
\* is empty or undefined, and no KPI card holds zero or any other value.
C9_NoMetricOverEmptyViewIsAValue ==
    EmptyView =>
        /\ EmptyViewResults
        /\ IsNaN(metrics.total_tracks)
        /\ IsNaN(metrics.superstars)

\* C9 as amended: over an empty view the run reaches its end, every aggregation
\* is empty or undefined (the means NaN, the top genre "N/A", no correlation,
\* no export), and the two counting cards, Total Tracks and Superstars, hold 0.
C9_EmptyViewUndefinedButCountsZero ==
    EmptyView =>
        /\ EmptyViewResults
        /\ metrics.total_tracks = Num(0)
        /\ metrics.superstars = Num(0)

\* C9 witness: a run whose view is empty, from a base table that is not.
C9_Witness ==
    /\ EmptyView
    /\ stage = "done"
    /\ df.rows # <<>>

ViewArtists == {r.Artist : r \in Range(df_filtered.rows)}
TracksOfArtist(a) ==
    Cardinality({i \in DOMAIN df_filtered.rows : df_filtered.rows[i].Artist = a})

\* C10: an artist of the view is in artist_stats exactly when the view holds
\* more than 2 of the artist's tracks, titled or not; the correlation, when
\* computed, is over exactly those artists.
C10_ArtistIncludedIffMoreThanTwoTracks ==
    ViewBuilt =>
        /\ \A a \in ViewArtists : (a \in DOMAIN artist_stats) <=> (TracksOfArtist(a) > 2)
        /\ corr_value.computed =>
              {x[1] : x \in corr_value.sample} = {a \in ViewArtists : TracksOfArtist(a) > 2}

\* The rows of df, by position, that the controls of this run select: the year
\* within the two bounds and, when a search is typed, the artist containing it
\* in either case.
Matches(cell, q) ==
    /\ IsTxt(cell)
    /\ \E k \in 0..(Len(cell.s) - Len(q)) :
          \A j \in 1..Len(q) : lower_char(cell.s[k + j]) = lower_char(q[j])
Selected ==
    {i \in DOMAIN df.rows :
        /\ df.rows[i].Year.n >= year_range[1]
        /\ df.rows[i].Year.n <= year_range[2]
        /\ (search_query = <<>> \/ Matches(df.rows[i].Artist, search_query))}
NthSelected(k) == CHOOSE i \in Selected : Cardinality({j \in Selected : j <= i}) = k

\* A field of the export holds the value v of the table, unmodified.
FieldHolds(column, field, v) ==
    CASE column = "Explicit_Label" -> field.f = "text" /\ field.chars = v
      [] IsNaN(v) -> field.f = "empty"
      [] IsTxt(v) -> field.f = "text" /\ field.chars = v.s
      [] IsNum(v) -> field.f = "decimal" /\ <<field.num, field.den>> = <<v.n, 1>>
      [] v.t = "ratio" -> field.f = "decimal" /\ <<field.num, field.den>> = <<v.num, v.den>>
      [] v.t = "date" -> field.f = "iso" /\ <<field.y, field.m, field.d>> = <<v.y, v.m, v.d>>
ExportLines == csv_export.data.text.lines

\* C11: after any sequence of changes to the year range and the artist search,
\* the export of a run is offered exactly when the controls of that run select
\* a row of df; it then holds those rows and no others, in the order of df,
\* every field holding the value of the table unmodified, under the columns of
\* df with no Tempo_Zone among them; and its file name carries the two bounds
\* of that run's year range.
C11_ExportIsCurrentFilteredView ==
    ViewBuilt =>
        /\ csv_export.offered <=> (Selected # {})
        /\ csv_export.offered =>
              /\ csv_export.file_name = <<"spotify_analysis", year_range[1], year_range[2]>>
              /\ csv_export.data.bom
              /\ csv_export.data.text.header = df.columns
              /\ "Tempo_Zone" \notin csv_export.data.text.header
              /\ Len(ExportLines) = Cardinality(Selected)
              /\ \A k \in DOMAIN ExportLines :
                    LET r == df.rows[NthSelected(k)]
                    IN  /\ DOMAIN ExportLines[k] = DOMAIN r
                        /\ \A c \in DOMAIN r : FieldHolds(c, ExportLines[k][c], r[c])

\* C11 witness: after both controls were changed, an export is offered that
\* leaves out rows of df which the first run's export held, and a later tab
\* has added Tempo_Zone to the view.
C11_Witness ==
    /\ stage = "done"
    /\ year_range # <<DefaultYearLo, DefaultYearHi>>
    /\ search_query # <<>>
    /\ csv_export.offered
    /\ Len(ExportLines) < Len(df.rows)
    /\ \E i \in DOMAIN df.rows :
          /\ i \notin Selected
          /\ df.rows[i].Year.n >= DefaultYearLo /\ df.rows[i].Year.n <= DefaultYearHi
    /\ "Tempo_Zone" \in df_filtered.columns
====
